---- MODULE Spec2Model ----
(***************************************************************************)
(* ReadingQuest recording engine (src/recording-engine.js): the capture    *)
(* session, the IndexedDB clip store and its size-based eviction.          *)
(*                                                                         *)
(* Every asynchronous callback of the JavaScript source (a promise         *)
(* reaction, an event handler, a timer callback) is one atomic action: the *)
(* event loop runs a callback to completion.  Between two callbacks any    *)
(* other enabled callback or caller operation may run.                     *)
(***************************************************************************)
EXTENDS Integers, Sequences, FiniteSets, TLC

VARIABLES
    \* ---- module state of RecordingEngine (recording-engine.js:24-37)
    supported,            \* var supported
    state,                \* var state: 'idle' | 'recording' | 'playing'
    mediaRecorder,        \* var mediaRecorder: recorder id, 0 = null
    recordedChunks,       \* var recordedChunks: sequence of chunks
    recordingStream,      \* var recordingStream: stream id, 0 = null
    recordingStartTime,   \* var recordingStartTime
    autoStopTimer,        \* var autoStopTimer: timer id, 0 = null
    mimeType,             \* var mimeType
    audioContext,         \* var audioContext / analyserNode (set and cleared together)
    \* ---- platform objects the engine creates
    platform,             \* what the browser offers (fixed)
    streams,              \* streams[s]: how many times the tracks of stream s were stopped
    recorders,            \* recorders[r]: the MediaRecorder objects
    timers,               \* timers[t]: "armed" | "cleared" | "fired"
    calls,                \* the promises returned by startRecording / stopRecording
    now,                  \* Date.now()
    \* ---- the IndexedDB object store and the store operations in flight
    store,                \* the records of object store 'recordings'
    nextId,               \* the autoIncrement key generator
    saves,                \* the saveRecording calls
    serial,               \* caller discipline: TRUE = one store call at a time
    sweeps,               \* the cleanupOldRecordings calls
    reads,                \* the getRecordingsForStory / getAllRecordings / store.get calls
    dels,                 \* the deleteRecording calls of the caller
    boot,                 \* init(): how far its promise chain has run
    cleanupTimer,         \* var cleanupTimer: TRUE = the hourly interval is set
    \* ---- playback
    currentAudio,         \* var currentAudio: audio id, 0 = null
    audios,               \* audios[a]: the Audio elements playRecording created
    urls,                 \* urls[u]: how many times object URL u was revoked
    plays,                \* the promises returned by playRecording
    \* ---- FocusMonitor (focus-monitor.js:10-43) and the host page it bridges to
    focusMonitor,         \* the module state of FocusMonitor and its pending timeouts
    host                  \* document.hidden, the host's timer globals, speechSynthesis

captureVars == <<supported, state, mediaRecorder, recordedChunks, recordingStream,
                 recordingStartTime, autoStopTimer, mimeType, audioContext,
                 platform, streams, recorders, timers, calls>>
archiveVars == <<sweeps, reads, dels, boot, cleanupTimer>>
storeVars == <<store, nextId, saves, serial, archiveVars>>
playVars == <<currentAudio, audios, urls, plays>>
focusVars == <<focusMonitor, host>>
vars == <<captureVars, now, storeVars, playVars, focusVars>>

-----------------------------------------------------------------------------
(* Bounds of the model *)

MaxCalls == 2       \* startRecording and stopRecording calls issued by the caller
MaxChunks == 1      \* dataavailable events delivered
MaxNow == 1         \* the largest value Date.now() returns
MaxSaves == 3       \* saveRecording calls issued by the caller
MaxSweeps == 1      \* cleanupOldRecordings calls
MaxDeletes == 1     \* deleteRecording calls issued by the caller
MaxReads == 1       \* getAllRecordings / getRecordingsForStory calls
MaxArchiveSaves == 1 \* saveRecording calls alongside sweeps, deletes and reads
MaxQuerySaves == 2  \* saveRecording calls alongside getRecordingsForStory
MaxDeleteCalls == 2 \* deleteRecording calls when the caller only deletes
MaxPlays == 2       \* playRecording calls issued by the caller
MaxReturnTimeouts == 2 \* tab-return timeouts of the focus monitor pending at once
MaxEvictSaves == 1  \* saveRecording calls on a store of mixed records

(* Program constants *)

MAX_AGE_MS == 7 * 24 * 60 * 60 * 1000
MAX_BLOB_SIZE_BYTES == 5 * 1024 * 1024
MAX_TOTAL_STORAGE_MB == 50

Null == 0

\* Chunk sizes delivered by the encoder: empty, the ceiling, one byte more
ChunkSizes == {0, MAX_BLOB_SIZE_BYTES, MAX_BLOB_SIZE_BYTES + 1}

-----------------------------------------------------------------------------
(* Helpers *)

RECURSIVE SumSizes(_)
SumSizes(seq) ==
    IF seq = <<>> THEN 0 ELSE Head(seq).size + SumSizes(Tail(seq))

\* new Blob(recordedChunks).size
BlobSize(chunks) == SumSizes(chunks)

Last(seq) == seq[Len(seq)]

\* The browsers the engine may be loaded in
Platforms ==
    { [apis |-> FALSE, types |-> {}],
      [apis |-> TRUE,  types |-> {}],
      [apis |-> TRUE,  types |-> {"audio/webm", "audio/mp4"}] }

PreferredTypes == <<"audio/webm;codecs=opus", "audio/webm", "audio/mp4">>

\* detectMimeType(): the first supported type of the preference list, or ''
detectMimeType(p) ==
    IF ~p.apis THEN ""
    ELSE IF \E i \in 1..Len(PreferredTypes) : PreferredTypes[i] \in p.types
         THEN PreferredTypes[CHOOSE i \in 1..Len(PreferredTypes) :
                  /\ PreferredTypes[i] \in p.types
                  /\ \A j \in 1..(i - 1) : PreferredTypes[j] \notin p.types]
         ELSE ""

\* init(): supported is set true only with the APIs and a usable format
InitSupported(p) == p.apis /\ detectMimeType(p) # ""

\* The message startRecording's catch handler gives an error name
GumErrorNames == {"NotAllowedError", "NotFoundError", "NotReadableError", "OtherError"}

GumErrorMessage(name) ==
    CASE name = "NotAllowedError"  -> "PermissionDenied"
      [] name = "NotFoundError"    -> "DeviceUnavailable"
      [] name = "NotReadableError" -> "DeviceBusy"
      [] OTHER                     -> "MicAccessDenied"

\* A promise returned by startRecording or stopRecording.
\*   by: who holds the promise ("caller", or "timer": the deadline callback,
\*   which attaches only .catch(function() {}))
NewCall(op, by, st, err) ==
    [op |-> op, by |-> by, st |-> st, err |-> err,
     stream |-> Null, rec |-> Null, blob |-> <<>>, duration |-> 0]

Settle(c, st, err) == [c EXCEPT !.st = st, !.err = err]

\* clearTimeout(t)
ClearTimeout(tm, t) ==
    IF t # Null /\ tm[t] = "armed" THEN [tm EXCEPT ![t] = "cleared"] ELSE tm

\* tracks[i].stop() for every track of stream s
StopTracks(sm, s) == [sm EXCEPT ![s] = @ + 1]

\* cleanupStream(): what it leaves in the six things it touches
cleanupStream(ast, rs, tm, sm) ==
    [autoStopTimer   |-> Null,
     timers          |-> ClearTimeout(tm, ast),
     audioContext    |-> FALSE,
     recordingStream |-> Null,
     streams         |-> IF rs # Null THEN StopTracks(sm, rs) ELSE sm,
     mediaRecorder   |-> Null]

\* (mutant) the check compares with the wrong state
IsAlreadyRecordingWrongState(st) == st = "playing"

\* startRecording's second check
IsAlreadyRecording(st) == st = "recording"

\* (mutant) the check joins its two conditions with && instead of ||
IsNotRecordingBoth(st, mr) == st # "recording" /\ mr = Null

\* stopRecording's first check
IsNotRecording(st, mr) == st # "recording" \/ mr = Null

\* (mutant) the check rejects a payload of exactly the ceiling
IsTooLargeOrEqual(size) == size >= MAX_BLOB_SIZE_BYTES

\* onstop's size check
IsTooLarge(size) == size > MAX_BLOB_SIZE_BYTES

\* Date.now(): a value not before the last one read
DateNow == now..MaxNow

Live(s) == streams[s] = 0
LiveStreams == {s \in 1..Len(streams) : Live(s)}

CallerCalls == {i \in 1..Len(calls) : calls[i].by = "caller"}

RECURSIVE ChunksSent(_)
ChunksSent(rs) == IF rs = <<>> THEN 0 ELSE Head(rs).sent + ChunksSent(Tail(rs))

-----------------------------------------------------------------------------
(* Capture session *)

\* startRecording(), up to the call of getUserMedia
StartRecording ==
    /\ Cardinality(CallerCalls) < MaxCalls
    /\ IF ~supported
       THEN /\ calls' = Append(calls, NewCall("start", "caller", "rejected", "NotSupported"))
            /\ UNCHANGED mimeType
       ELSE IF IsAlreadyRecording(state)
       THEN /\ calls' = Append(calls, NewCall("start", "caller", "rejected", "AlreadyRecording"))
            /\ UNCHANGED mimeType
       ELSE /\ mimeType' = detectMimeType(platform)
            /\ IF mimeType' = ""
               THEN calls' = Append(calls, NewCall("start", "caller", "rejected", "FormatUnsupported"))
               ELSE calls' = Append(calls, NewCall("start", "caller", "gum", ""))
    /\ UNCHANGED <<supported, state, mediaRecorder, recordedChunks, recordingStream,
                   recordingStartTime, autoStopTimer, audioContext, platform,
                   streams, recorders, timers, now, storeVars, playVars, focusVars>>

\* getUserMedia resolves with a new stream: the .then handler of startRecording.
\*   outcome: what the MediaRecorder constructor and start() do
\*   meter:   whether the AudioContext for level metering could be created
GumResolve(c, outcome, meter, t) ==
    /\ calls[c].op = "start" /\ calls[c].st = "gum"
    /\ LET s  == Len(streams) + 1
           r  == Len(recorders) + 1
           tid == Len(timers) + 1
           sm == Append(streams, 0)
       IN
       /\ recordedChunks' = <<>>
       /\ CASE outcome = "ctorThrows" ->
                 LET cl == cleanupStream(autoStopTimer, s, timers, sm) IN
                 /\ autoStopTimer' = cl.autoStopTimer
                 /\ timers' = cl.timers
                 /\ audioContext' = cl.audioContext
                 /\ recordingStream' = cl.recordingStream
                 /\ streams' = cl.streams
                 /\ mediaRecorder' = cl.mediaRecorder
                 /\ calls' = [calls EXCEPT ![c] =
                       [Settle(@, "rejected", "RecorderCreateFailed") EXCEPT !.stream = s]]
                 /\ UNCHANGED <<recorders, state, recordingStartTime, now>>
            [] outcome = "startThrows" ->
                 \* the exception lands in the .catch handler, which only rejects
                 /\ recordingStream' = s
                 /\ streams' = sm
                 /\ mediaRecorder' = r
                 /\ recorders' = Append(recorders,
                       [stream |-> s, rstate |-> "inactive", stopPending |-> FALSE,
                        onstop |-> Null, sent |-> 0])
                 /\ calls' = [calls EXCEPT ![c] =
                       [Settle(@, "rejected", GumErrorMessage("OtherError"))
                          EXCEPT !.stream = s, !.rec = r]]
                 /\ UNCHANGED <<autoStopTimer, timers, audioContext, state,
                                recordingStartTime, now>>
            [] OTHER ->
                 /\ recordingStream' = s
                 /\ streams' = sm
                 /\ mediaRecorder' = r
                 /\ recorders' = Append(recorders,
                       [stream |-> s, rstate |-> "recording", stopPending |-> FALSE,
                        onstop |-> Null, sent |-> 0])
                 /\ recordingStartTime' = t
                 /\ now' = t
                 /\ state' = "recording"
                 /\ audioContext' = meter
                 /\ timers' = Append(ClearTimeout(timers, autoStopTimer), "armed")
                 /\ autoStopTimer' = tid
                 /\ calls' = [calls EXCEPT ![c] =
                       [Settle(@, "resolved", "") EXCEPT !.stream = s, !.rec = r]]
    /\ UNCHANGED <<supported, mimeType, platform, storeVars, playVars, focusVars>>

\* getUserMedia rejects: the .catch handler of startRecording
GumReject(c, name) ==
    /\ calls[c].op = "start" /\ calls[c].st = "gum"
    /\ calls' = [calls EXCEPT ![c] = Settle(@, "rejected", GumErrorMessage(name))]
    /\ UNCHANGED <<supported, state, mediaRecorder, recordedChunks, recordingStream,
                   recordingStartTime, autoStopTimer, mimeType, audioContext,
                   platform, streams, recorders, timers, now, storeVars, playVars, focusVars>>

\* stopRecording() called by `by`, with the timers as they are at the call.
\*   throws: whether MediaRecorder.stop() on an inactive recorder throws
\*   InvalidStateError (older browsers) or does nothing (current browsers)
\*   t: the value Date.now() returns
stopRecording(by, tm, throws, t) ==
    IF IsNotRecording(state, mediaRecorder)
    THEN /\ calls' = Append(calls, NewCall("stop", by, "rejected", "NotRecording"))
         /\ timers' = tm
         /\ UNCHANGED <<autoStopTimer, recorders, now>>
    ELSE LET r == mediaRecorder
             c == Len(calls) + 1
             inactive == recorders[r].rstate = "inactive"
             promise == [NewCall("stop", by, "pending", "")
                           EXCEPT !.rec = r, !.duration = t - recordingStartTime]
         IN
         /\ timers' = ClearTimeout(tm, autoStopTimer)
         /\ autoStopTimer' = Null
         /\ now' = t
         /\ recorders' = [recorders EXCEPT ![r] =
               IF inactive THEN [@ EXCEPT !.onstop = c]
               ELSE [@ EXCEPT !.onstop = c, !.rstate = "inactive", !.stopPending = TRUE]]
         /\ calls' = Append(calls,
               IF inactive /\ throws
               THEN Settle(promise, "rejected", "InvalidState")
               ELSE promise)

\* The caller calls stopRecording()
StopRecording(throws, t) ==
    /\ Cardinality(CallerCalls) < MaxCalls
    /\ stopRecording("caller", timers, throws, t)
    /\ UNCHANGED <<supported, state, mediaRecorder, recordedChunks, recordingStream,
                   recordingStartTime, mimeType, audioContext, platform, streams,
                   storeVars, playVars, focusVars>>

\* The deadline timer fires: the callback given to setTimeout
AutoStop(tid, throws, t) ==
    /\ tid \in 1..Len(timers) /\ timers[tid] = "armed"
    /\ IF state = "recording"
       THEN stopRecording("timer", [timers EXCEPT ![tid] = "fired"], throws, t)
       ELSE /\ timers' = [timers EXCEPT ![tid] = "fired"]
            /\ UNCHANGED <<autoStopTimer, recorders, calls, now>>
    /\ UNCHANGED <<supported, state, mediaRecorder, recordedChunks, recordingStream,
                   recordingStartTime, mimeType, audioContext, platform, streams,
                   storeVars, playVars, focusVars>>

\* mediaRecorder.ondataavailable: a chunk of recorder r arrives
DataAvailable(r, size) ==
    /\ r \in 1..Len(recorders)
    /\ recorders[r].rstate = "recording" \/ recorders[r].stopPending
    /\ ChunksSent(recorders) < MaxChunks
    /\ recorders' = [recorders EXCEPT ![r].sent = @ + 1]
    /\ recordedChunks' =
          IF size > 0
          THEN Append(recordedChunks, [rec |-> r, n |-> recorders[r].sent + 1, size |-> size])
          ELSE recordedChunks
    /\ UNCHANGED <<supported, state, mediaRecorder, recordingStream, recordingStartTime,
                   autoStopTimer, mimeType, audioContext, platform, streams, timers,
                   calls, now, storeVars, playVars, focusVars>>

\* The stop event of recorder r: mediaRecorder.onstop, if stopRecording set one
OnStop(r) ==
    /\ r \in 1..Len(recorders)
    /\ recorders[r].stopPending
    /\ recorders' = [recorders EXCEPT ![r].stopPending = FALSE]
    /\ IF recorders[r].onstop = Null
       THEN UNCHANGED <<recordedChunks, autoStopTimer, timers, audioContext,
                        recordingStream, streams, mediaRecorder, state, calls>>
       ELSE LET c == recorders[r].onstop
                blob == recordedChunks
                cl == cleanupStream(autoStopTimer, recordingStream, timers, streams)
            IN
            /\ recordedChunks' = <<>>
            /\ autoStopTimer' = cl.autoStopTimer
            /\ timers' = cl.timers
            /\ audioContext' = cl.audioContext
            /\ recordingStream' = cl.recordingStream
            /\ streams' = cl.streams
            /\ mediaRecorder' = cl.mediaRecorder
            /\ state' = "idle"
            /\ calls' = [calls EXCEPT ![c] =
                  IF @.st # "pending" THEN @      \* settling a settled promise does nothing
                  ELSE IF IsTooLarge(BlobSize(blob))
                  THEN [Settle(@, "rejected", "PayloadTooLarge") EXCEPT !.blob = blob]
                  ELSE [Settle(@, "resolved", "") EXCEPT !.blob = blob]]
    /\ UNCHANGED <<supported, recordingStartTime, mimeType, platform, now, storeVars, playVars, focusVars>>

\* The recorder r fails while recording: mediaRecorder.onerror, after which the
\* platform stops the recorder and queues its stop event
OnError(r) ==
    /\ r \in 1..Len(recorders)
    /\ recorders[r].rstate = "recording"
    /\ recorders' = [recorders EXCEPT ![r].rstate = "inactive", ![r].stopPending = TRUE]
    /\ LET cl == cleanupStream(autoStopTimer, recordingStream, timers, streams) IN
       /\ autoStopTimer' = cl.autoStopTimer
       /\ timers' = cl.timers
       /\ audioContext' = cl.audioContext
       /\ recordingStream' = cl.recordingStream
       /\ streams' = cl.streams
       /\ mediaRecorder' = cl.mediaRecorder
    /\ state' = "idle"
    /\ UNCHANGED <<supported, recordedChunks, recordingStartTime, mimeType, platform,
                   calls, now, storeVars, playVars, focusVars>>

-----------------------------------------------------------------------------

\* FocusMonitor right after start(), on a visible tab
FocusStarted ==
    [isOffTab |-> FALSE, isIdle |-> FALSE, idleStage |-> 0,
     wasTimerRunning |-> FALSE, wasTimerRunningIdle |-> FALSE,
     wasSpeechActive |-> FALSE, wasSpeechActiveIdle |-> FALSE,
     idleTimeout |-> TRUE, stage2Timeout |-> FALSE, returnTimeouts |-> <<>>,
     awayFound |-> [timer |-> FALSE, speech |-> FALSE],
     nudgeFound |-> [timer |-> FALSE, speech |-> FALSE]]

\* The focus monitor watches a visible page whose timer and speech are off
InitFocusIdle ==
    /\ focusMonitor = FocusStarted
    /\ host = [hidden |-> FALSE, timerRunning |-> FALSE, timerInterval |-> FALSE,
               speaking |-> FALSE, paused |-> FALSE]

\* Nothing has been played
InitPlayIdle ==
    /\ currentAudio = Null
    /\ audios = <<>>
    /\ urls = <<>>
    /\ plays = <<>>

InitCapture ==
    /\ platform \in Platforms
    /\ supported = InitSupported(platform)
    /\ state = "idle"
    /\ mediaRecorder = Null
    /\ recordedChunks = <<>>
    /\ recordingStream = Null
    /\ recordingStartTime = 0
    /\ autoStopTimer = Null
    /\ mimeType = ""
    /\ audioContext = FALSE
    /\ streams = <<>>
    /\ recorders = <<>>
    /\ timers = <<>>
    /\ calls = <<>>
    /\ now = 0
    /\ InitPlayIdle
    /\ InitFocusIdle

\* No sweep, read or delete has been called, init has not run
InitArchiveIdle ==
    /\ sweeps = <<>>
    /\ reads = <<>>
    /\ dels = <<>>
    /\ boot = "none"
    /\ cleanupTimer = FALSE

\* The capture session runs over an untouched store
InitStoreIdle ==
    /\ store = {}
    /\ nextId = 1
    /\ saves = <<>>
    /\ serial = TRUE
    /\ InitArchiveIdle

NextCapture ==
    \/ StartRecording
    \/ \E c \in 1..Len(calls), outcome \in {"ok", "ctorThrows", "startThrows"},
          meter \in BOOLEAN, t \in DateNow : GumResolve(c, outcome, meter, t)
    \/ \E c \in 1..Len(calls), name \in GumErrorNames : GumReject(c, name)
    \/ \E throws \in BOOLEAN, t \in DateNow : StopRecording(throws, t)
    \/ \E tid \in 1..Len(timers), throws \in BOOLEAN, t \in DateNow : AutoStop(tid, throws, t)
    \/ \E r \in 1..Len(recorders), size \in ChunkSizes : DataAvailable(r, size)
    \/ \E r \in 1..Len(recorders) : OnStop(r)
    \/ \E r \in 1..Len(recorders) : OnError(r)

InitCaptureSpec == InitCapture /\ InitStoreIdle

SpecCapture == InitCaptureSpec /\ [][NextCapture]_vars

-----------------------------------------------------------------------------
(* Capture session: the claims *)

Calls == 1..Len(calls)
Recorders == 1..Len(recorders)

\* The session state a rejected call must leave alone
sessionVars == <<state, recordingStream, mediaRecorder, recordedChunks,
                 recordingStartTime, autoStopTimer, audioContext, mimeType,
                 streams, recorders, timers>>

\* This step is a call of op: a promise is added to calls
CallStep(op) == Len(calls') = Len(calls) + 1 /\ Last(calls').op = op

\* The stop path of recorder r has run: the onstop handler stopRecording set,
\* or the onerror handler (after which the stop event finds no onstop handler)
SessionEnded(r) ==
    /\ recorders[r].rstate = "inactive"
    /\ ~recorders[r].stopPending \/ recorders[r].onstop = Null

\* The sessions: the startRecording calls that resolved
Sessions == {c \in Calls : calls[c].op = "start" /\ calls[c].st = "resolved"}

\* C1: startRecording while state is 'recording' rejects with 'Already
\* recording.' and changes nothing of the existing session: state, stream,
\* recorder, chunks, start time and deadline timer stay as they were.
C1_AlreadyRecordingKeepsSession ==
    [][(CallStep("start") /\ state = "recording")
         => /\ Last(calls').st = "rejected"
            /\ Last(calls').err = "AlreadyRecording"
            /\ UNCHANGED sessionVars]_vars

C1_Witness ==
    /\ state = "recording"
    /\ recordingStream # Null /\ Live(recordingStream)
    /\ autoStopTimer # Null /\ timers[autoStopTimer] = "armed"
    /\ \E c \in Calls : calls[c].op = "start" /\ calls[c].err = "AlreadyRecording"

\* C2: at most one input stream of a session is acquired and not released at
\* a time, the engine still references it, and at most one recorder records.
C2_OneLiveStream ==
    LET live == {calls[c].stream : c \in Sessions} \cap LiveStreams IN
    /\ Cardinality(live) <= 1
    /\ live \subseteq {recordingStream}
    /\ Cardinality({r \in Recorders : recorders[r].rstate = "recording"}) <= 1

\* C3: a session stopped by the deadline timer releases its stream exactly
\* once, returns to idle, and its payload (under the ceiling) reaches the
\* caller: a promise the caller holds resolves with it.
C3_DeadlineStopDelivers ==
    \A c \in Calls :
        (calls[c].op = "stop" /\ calls[c].by = "timer" /\ calls[c].st = "resolved")
        => /\ streams[recorders[calls[c].rec].stream] = 1
           /\ \E d \in Calls : /\ calls[d].by = "caller"
                               /\ calls[d].op = "stop"
                               /\ calls[d].st = "resolved"
                               /\ calls[d].rec = calls[c].rec
                               /\ calls[d].blob = calls[c].blob

\* C4: whichever way a session is stopped (stopRecording by the caller, the
\* deadline timer, the recorder's error) and however the callbacks interleave,
\* the tracks of its stream are stopped exactly once: not before the stop
\* path has run, once when it has, and no stream is ever stopped twice.
C4_ReleasedExactlyOnce ==
    /\ \A s \in 1..Len(streams) : streams[s] <= 1
    /\ \A c \in Sessions :
          streams[calls[c].stream] = IF SessionEnded(calls[c].rec) THEN 1 ELSE 0

\* C5: stopRecording with no active session (state is not 'recording', or
\* there is no recorder) rejects with 'Not currently recording.' and changes
\* no engine state.
C5_NotRecordingChangesNothing ==
    [][(CallStep("stop") /\ (state # "recording" \/ mediaRecorder = Null))
         => /\ Last(calls').st = "rejected"
            /\ Last(calls').err = "NotRecording"
            /\ UNCHANGED sessionVars]_vars

\* stopRecording was rejected although a recorder object is left over
C5_Witness ==
    \E c \in Calls :
        /\ calls[c].op = "stop" /\ calls[c].err = "NotRecording"
        /\ state = "idle" /\ mediaRecorder # Null

\* C6: a startRecording call that rejected has left the stream it acquired
\* released (no failing path arms a deadline timer).
C6_FailedStartReleasesStream ==
    \A c \in Calls :
        (calls[c].op = "start" /\ calls[c].st = "rejected" /\ calls[c].stream # Null)
        => streams[calls[c].stream] > 0

\* C7: when onstop finalizes a payload, the session releases the stream it
\* holds, the metering and the timer and returns to idle whatever the size;
\* the promise rejects with PayloadTooLarge when the size is over 5 MiB and
\* resolves with the payload when the size is 5 MiB or less.
C7_TooLargeRejectsAfterRelease ==
    [][\A c \in Calls :
          (calls[c].op = "stop" /\ calls[c].st = "pending" /\ calls'[c].st # "pending")
          => /\ state' = "idle"
             /\ recordingStream' = Null /\ mediaRecorder' = Null
             /\ autoStopTimer' = Null /\ audioContext' = FALSE
             /\ recordingStream # Null => streams'[recordingStream] > 0
             /\ autoStopTimer # Null => timers'[autoStopTimer] # "armed"
             /\ IF BlobSize(calls'[c].blob) > 5 * 1024 * 1024
                THEN calls'[c].st = "rejected" /\ calls'[c].err = "PayloadTooLarge"
                ELSE calls'[c].st = "resolved"]_vars

C7_Witness ==
    \E c \in Calls :
        /\ calls[c].err = "PayloadTooLarge"
        /\ BlobSize(calls[c].blob) = MAX_BLOB_SIZE_BYTES + 1
        /\ state = "idle" /\ recordingStream = Null
        /\ streams[recorders[calls[c].rec].stream] = 1

-----------------------------------------------------------------------------
(* Content store: object store 'recordings', keyPath 'id', autoIncrement,   *)
(* with index 'timestamp'.  A record is [id, size, timestamp]: size is      *)
(* blob.size.  IndexedDB serves the transactions on one object store in the *)
(* order they were created, so a request takes effect when its transaction  *)
(* is created and its onsuccess callback runs later.  The requests of the   *)
(* store specification succeed: the database opens, and no getAll, delete   *)
(* or add request reports an error.                                         *)

\* JavaScript values of the metadata fields: a missing field is undefined
NoString == "<undefined>"
NoNumber == -1

\* x || d for a string field: undefined and '' are falsy
OrString(x, d) == IF x = NoString \/ x = "" THEN d ELSE x

\* x || d for a number field: undefined and 0 are falsy
OrNumber(x, d) == IF x = NoNumber \/ x = 0 THEN d ELSE x

\* saveRecording: the record built from the caller's metadata and blob, with
\* the key the store assigns; mt is the engine's mimeType
Record(id, metadata, size, t, mt) ==
    [id            |-> id,
     storyId       |-> metadata.storyId,
     storyTitle    |-> OrString(metadata.storyTitle, ""),
     level         |-> OrString(metadata.level, ""),
     attemptNumber |-> OrNumber(metadata.attemptNumber, 1),
     size          |-> size,
     mimeType      |-> OrString(metadata.mimeType, OrString(mt, "audio/webm")),
     timestamp     |-> t,
     duration      |-> OrNumber(metadata.duration, 0),
     wpm           |-> OrNumber(metadata.wpm, 0)]

\* The metadata of a first attempt at story 'a', every field supplied
PlainMetadata ==
    [storyId |-> "a", storyTitle |-> "A", level |-> "L", attemptNumber |-> 1,
     mimeType |-> "audio/webm", duration |-> 3, wpm |-> 90]

\* (mutant) a key computed from the records the store holds: one more than
\* the greatest id among them
GeneratedKeyFromContents(recs, k) ==
    IF recs = {} THEN 1
    ELSE 1 + (CHOOSE i \in {x.id : x \in recs} : \A x \in recs : x.id <= i)

\* The autoIncrement key generator: the key it issues when its current
\* number is k, whatever records recs the store holds
GeneratedKey(recs, k) == k

Total(recs) ==
    LET RECURSIVE Sum(_)
        Sum(S) == IF S = {} THEN 0
                  ELSE LET x == CHOOSE y \in S : TRUE IN x.size + Sum(S \ {x})
    IN Sum(recs)

\* (mutant) the index is read newest first
IndexNewestFirst(a, b) ==
    a.timestamp > b.timestamp \/ (a.timestamp = b.timestamp /\ a.id > b.id)

\* (mutant) equal timestamps are read in descending key order
IndexTieNewestKeyFirst(a, b) ==
    a.timestamp < b.timestamp \/ (a.timestamp = b.timestamp /\ a.id > b.id)

\* index 'timestamp': ascending timestamp, then ascending primary key
IndexBefore(a, b) ==
    a.timestamp < b.timestamp \/ (a.timestamp = b.timestamp /\ a.id < b.id)

\* getAllRecordingsSortedByTimestamp(): index.getAll() on the records recs
RECURSIVE getAllRecordingsSortedByTimestamp(_)
getAllRecordingsSortedByTimestamp(recs) ==
    IF recs = {} THEN <<>>
    ELSE LET first == CHOOSE x \in recs : \A y \in recs \ {x} : IndexBefore(x, y)
         IN <<first>> \o getAllRecordingsSortedByTimestamp(recs \ {first})

\* (mutant) the needed bytes are added to the ceiling instead of subtracted
TargetMaxPlus(neededBytes) == (MAX_TOTAL_STORAGE_MB * 1024 * 1024) + neededBytes

\* autoDeleteOldest: targetMax
TargetMax(neededBytes) == (MAX_TOTAL_STORAGE_MB * 1024 * 1024) - neededBytes

\* (mutant) the loop stops one record short of the end of the snapshot
RECURSIVE EvictLoopStopsShort(_, _, _, _, _)
EvictLoopStopsShort(recordings, j, freedSoFar, totalBytes, targetMax) ==
    IF j > Len(recordings) - 1 \/ totalBytes - freedSoFar <= targetMax
    THEN <<>>
    ELSE <<recordings[j].id>> \o
         EvictLoopStopsShort(recordings, j + 1, freedSoFar + recordings[j].size,
                             totalBytes, targetMax)

\* autoDeleteOldest: the for loop from index j on, freedSoFar bytes freed
RECURSIVE EvictLoop(_, _, _, _, _)
EvictLoop(recordings, j, freedSoFar, totalBytes, targetMax) ==
    IF j > Len(recordings) \/ totalBytes - freedSoFar <= targetMax
    THEN <<>>
    ELSE <<recordings[j].id>> \o
         EvictLoop(recordings, j + 1, freedSoFar + recordings[j].size,
                   totalBytes, targetMax)

\* (mutant) an eviction that deletes the whole snapshot once it is needed
autoDeleteOldestAll(recordings, neededBytes) ==
    IF SumSizes(recordings) <= TargetMax(neededBytes)
    THEN <<>>
    ELSE [j \in 1..Len(recordings) |-> recordings[j].id]

\* autoDeleteOldest(neededBytes) on the snapshot recordings: the ids it
\* passes to deleteRecording, in order
autoDeleteOldest(recordings, neededBytes) ==
    LET totalBytes == SumSizes(recordings)
        targetMax == TargetMax(neededBytes)
    IN IF totalBytes <= targetMax
       THEN <<>>
       ELSE EvictLoop(recordings, 1, 0, totalBytes, targetMax)

Range(seq) == {seq[i] : i \in 1..Len(seq)}

\* (mutant) a delete of the key range up to each id
deleteRecordingUpTo(recs, ids) == {x \in recs : \A i \in ids : x.id > i}

\* store.delete(id) for each id: deleting an absent key succeeds
deleteRecording(recs, ids) == {x \in recs : x.id \notin ids}

\* Blob sizes the caller passes to saveRecording
BlobSizes == {MAX_BLOB_SIZE_BYTES, MAX_BLOB_SIZE_BYTES + 1}

Saves == 1..Len(saves)

\* saveRecording(metadata, blob) is called: autoDeleteOldest asks for the
\* records by timestamp
SaveCall(size, metadata) ==
    /\ Len(saves) < MaxSaves
    /\ serial => \A p \in Saves : saves[p].pc \in {"done", "failed"}
    /\ saves' = Append(saves,
          [size |-> size, metadata |-> metadata, pc |-> "reading",
           recordings |-> getAllRecordingsSortedByTimestamp(store),
           deleted |-> <<>>, id |-> Null, cause |-> "none"])
    /\ UNCHANGED <<store, nextId, serial, now, captureVars, archiveVars, playVars, focusVars>>

\* index.getAll() succeeds: autoDeleteOldest decides on the snapshot.  With
\* nothing to delete the add transaction is created in the same turn; otherwise
\* the delete transactions are, one after the other.
SaveEvict(p, t) ==
    /\ p \in Saves /\ saves[p].pc = "reading"
    /\ LET ids == autoDeleteOldest(saves[p].recordings, saves[p].size) IN
       IF ids = <<>>
       THEN /\ store' = store \cup {Record(GeneratedKey(store, nextId), saves[p].metadata,
                                            saves[p].size, t, mimeType)}
            /\ nextId' = GeneratedKey(store, nextId) + 1
            /\ now' = t
            /\ saves' = [saves EXCEPT ![p].pc = "adding",
                                      ![p].id = GeneratedKey(store, nextId)]
       ELSE /\ store' = deleteRecording(store, Range(ids))
            /\ saves' = [saves EXCEPT ![p].pc = "deleting", ![p].deleted = ids]
            /\ UNCHANGED <<nextId, now>>
    /\ UNCHANGED <<serial, captureVars, archiveVars, playVars, focusVars>>

\* Every delete has succeeded (Promise.all): the record is built with
\* timestamp Date.now() = t and the add transaction is created
SaveAdd(p, t) ==
    /\ p \in Saves /\ saves[p].pc = "deleting"
    /\ store' = store \cup {Record(GeneratedKey(store, nextId), saves[p].metadata,
                                 saves[p].size, t, mimeType)}
    /\ nextId' = GeneratedKey(store, nextId) + 1
    /\ now' = t
    /\ saves' = [saves EXCEPT ![p].pc = "adding", ![p].id = GeneratedKey(store, nextId)]
    /\ UNCHANGED <<serial, captureVars, archiveVars, playVars, focusVars>>

\* store.add's onsuccess: saveRecording resolves with the id
SaveDone(p) ==
    /\ p \in Saves /\ saves[p].pc = "adding"
    /\ saves' = [saves EXCEPT ![p].pc = "done"]
    /\ UNCHANGED <<store, nextId, serial, now, captureVars, archiveVars, playVars, focusVars>>

\* A store filled by earlier page loads: n records of 5 MiB, oldest first
FilledStore(n) ==
    {Record(i, PlainMetadata, MAX_BLOB_SIZE_BYTES, 0, "") : i \in 1..n}

\* Records of 5 MiB that fill the total ceiling exactly
FullCount == (MAX_TOTAL_STORAGE_MB * 1024 * 1024) \div MAX_BLOB_SIZE_BYTES

\* The store is empty, holds exactly the total ceiling, or holds more than
\* the ceiling (what earlier page loads may have left)
InitStore ==
    /\ \E n \in {0, FullCount, FullCount + 2} :
          /\ store = FilledStore(n)
          /\ nextId = n + 1
    /\ saves = <<>>
    /\ serial \in BOOLEAN
    /\ InitArchiveIdle

\* The store runs with no capture session
InitCaptureIdle ==
    /\ platform = [apis |-> TRUE, types |-> {"audio/webm", "audio/mp4"}]
    /\ supported = TRUE
    /\ state = "idle"
    /\ mediaRecorder = Null
    /\ recordedChunks = <<>>
    /\ recordingStream = Null
    /\ recordingStartTime = 0
    /\ autoStopTimer = Null
    /\ mimeType = ""
    /\ audioContext = FALSE
    /\ streams = <<>>
    /\ recorders = <<>>
    /\ timers = <<>>
    /\ calls = <<>>
    /\ now = 0
    /\ InitPlayIdle
    /\ InitFocusIdle

InitStoreSpec == InitCaptureIdle /\ InitStore

NextStore ==
    \/ \E size \in BlobSizes : SaveCall(size, PlainMetadata)
    \/ \E p \in Saves, t \in DateNow : SaveEvict(p, t)
    \/ \E p \in Saves, t \in DateNow : SaveAdd(p, t)
    \/ \E p \in Saves : SaveDone(p)

SpecStore == InitStoreSpec /\ [][NextStore]_vars

-----------------------------------------------------------------------------
(* Content store: the claims *)

\* The most recently inserted record: the one with the largest id
LastInserted == CHOOSE p \in Saves :
    saves[p].id # Null /\ \A q \in Saves : saves[q].id <= saves[p].id

\* C8: every persisted record has a payload of at most 5 MiB, whatever blob
\* is passed to saveRecording.
C8_RecordsWithinCeiling ==
    \A x \in store : x.size <= 5 * 1024 * 1024

C10_ConcurrentSavesWithinCap ==
    (saves # <<>> /\ \A p \in Saves : saves[p].pc = "done")
    => Total(store) <= 50 * 1024 * 1024 + saves[LastInserted].size

-----------------------------------------------------------------------------
(* Content store with a failing persistence layer: the database may fail to *)
(* open, and a getAll, delete or add request may report an error.  A write  *)
(* request that is going to fail has no effect on the store; its onerror    *)
(* callback runs later.                                                     *)

\* Blob sizes of the failing-store specification: 5 MiB, and more than the
\* total ceiling
HugeSizes == {MAX_BLOB_SIZE_BYTES, (MAX_TOTAL_STORAGE_MB * 1024 * 1024) + 1}

\* openDatabase rejects (no indexedDB, or the open request's onerror): the
\* chain of saveRecording rejects before anything is read
SaveOpenError(p) ==
    /\ p \in Saves /\ saves[p].pc = "reading"
    /\ saves' = [saves EXCEPT ![p].pc = "failed", ![p].cause = "open",
                              ![p].recordings = <<>>]
    /\ UNCHANGED <<store, nextId, serial, now, captureVars, archiveVars, playVars, focusVars>>

\* index.getAll()'s onerror: the snapshot resolves to [], autoDeleteOldest
\* finds nothing to delete and the add transaction is created in the same turn
SaveReadError(p, t) ==
    /\ p \in Saves /\ saves[p].pc = "reading"
    /\ autoDeleteOldest(<<>>, saves[p].size) = <<>>
    /\ store' = store \cup {Record(GeneratedKey(store, nextId), saves[p].metadata,
                                 saves[p].size, t, mimeType)}
    /\ nextId' = GeneratedKey(store, nextId) + 1
    /\ now' = t
    /\ saves' = [saves EXCEPT ![p].pc = "adding", ![p].cause = "read",
                              ![p].recordings = <<>>,
                              ![p].id = GeneratedKey(store, nextId)]
    /\ UNCHANGED <<serial, captureVars, archiveVars, playVars, focusVars>>

\* index.getAll() succeeds and the k-th of the deletes autoDeleteOldest issues
\* is going to fail: the others take effect
SaveEvictFailing(p, k) ==
    /\ p \in Saves /\ saves[p].pc = "reading"
    /\ LET ids == autoDeleteOldest(saves[p].recordings, saves[p].size)
           others == {ids[i] : i \in (1..Len(ids)) \ {k}}
       IN /\ k \in 1..Len(ids)
          /\ store' = deleteRecording(store, others)
          /\ saves' = [saves EXCEPT ![p].pc = "deleteFailing", ![p].cause = "delete",
                                    ![p].deleted = ids]
    /\ UNCHANGED <<nextId, serial, now, captureVars, archiveVars, playVars, focusVars>>

\* The add transaction is created (after an eviction that deleted nothing, or
\* after every delete succeeded) and its request is going to fail
SaveAddFailing(p) ==
    /\ p \in Saves
    /\ \/ saves[p].pc = "deleting"
       \/ /\ saves[p].pc = "reading"
          /\ autoDeleteOldest(saves[p].recordings, saves[p].size) = <<>>
    /\ saves' = [saves EXCEPT ![p].pc = "addFailing", ![p].cause = "add"]
    /\ UNCHANGED <<store, nextId, serial, now, captureVars, archiveVars, playVars, focusVars>>

\* The onerror callback of the failed delete or add: saveRecording rejects
SaveRejected(p) ==
    /\ p \in Saves /\ saves[p].pc \in {"deleteFailing", "addFailing"}
    /\ saves' = [saves EXCEPT ![p].pc = "failed"]
    /\ UNCHANGED <<store, nextId, serial, now, captureVars, archiveVars, playVars, focusVars>>

\* The store is empty or holds exactly the total ceiling; the calls are issued
\* one after another
InitStoreFaults ==
    /\ InitCaptureIdle
    /\ \E n \in {0, FullCount} :
          /\ store = FilledStore(n)
          /\ nextId = n + 1
    /\ saves = <<>>
    /\ serial = TRUE
    /\ InitArchiveIdle

NextStoreFaults ==
    \/ \E size \in HugeSizes : SaveCall(size, PlainMetadata)
    \/ \E p \in Saves, t \in DateNow : SaveEvict(p, t)
    \/ \E p \in Saves, t \in DateNow : SaveAdd(p, t)
    \/ \E p \in Saves : SaveDone(p)
    \/ \E p \in Saves : SaveOpenError(p)
    \/ \E p \in Saves, t \in DateNow : SaveReadError(p, t)
    \/ \E p \in Saves, k \in 1..Cardinality(store) : SaveEvictFailing(p, k)
    \/ \E p \in Saves : SaveAddFailing(p)
    \/ \E p \in Saves : SaveRejected(p)

SpecStoreFaults == InitStoreFaults /\ [][NextStoreFaults]_vars

\* Save p's add transaction is created in this step
AddCreated(p) ==
    /\ saves'[p].pc = "adding"
    /\ saves[p].pc # "adding"

\* C12: a saveRecording call fails only when the persistence layer fails to
\* open or write, never for size: every other call gets its record persisted
\* and its id returned, and a call with a blob larger than the total ceiling,
\* issued alone, leaves the store holding exactly the new record.
C12_NeverFailsForSize ==
    /\ [](\A p \in Saves :
            /\ saves[p].pc \in {"deleteFailing", "addFailing", "failed"}
                  => saves[p].cause \in {"open", "delete", "add"}
            /\ saves[p].pc \in {"adding", "done"} => saves[p].id # Null)
    /\ [][\A p \in Saves :
            AddCreated(p) =>
              LET new == Record(saves'[p].id, saves[p].metadata, saves[p].size,
                                now', mimeType)
              IN /\ new \in store' /\ new \notin store
                 /\ (serial /\ saves'[p].cause = "none"
                       /\ saves[p].size > MAX_TOTAL_STORAGE_MB * 1024 * 1024)
                      => store' = {new}]_vars

\* A blob larger than the total ceiling was saved into a full store: every
\* record was evicted, the new one is persisted and its id returned
C12_Witness ==
    \E p \in Saves :
        /\ saves[p].pc = "done" /\ saves[p].cause = "none"
        /\ saves[p].size > MAX_TOTAL_STORAGE_MB * 1024 * 1024
        /\ Len(saves[p].deleted) = FullCount
        /\ \E x \in store : x.id = saves[p].id /\ x.size = saves[p].size

-----------------------------------------------------------------------------
(* The archive: age sweep, explicit deletes and whole-store reads running   *)
(* alongside the saves.  cleanupOldRecordings deletes through a cursor in   *)
(* one readwrite transaction, which the store serves as a unit in creation  *)
(* order: its deletions take effect when the transaction is created, and    *)
(* the cursor's onsuccess callbacks run later, one per record found.        *)

Sweeps == 1..Len(sweeps)
Dels == 1..Len(dels)
Reads == 1..Len(reads)

\* IDBKeyRange.upperBound(cutoff): the bound is included
InRange(timestamp, cutoff) == timestamp <= cutoff

\* (mutant) the sweep's range reaches one ceiling too far
CutoffAtNow(t) == t

\* cleanupOldRecordings: cutoff
Cutoff(t) == t - MAX_AGE_MS

\* cleanupOldRecordings() called by `by`, its transaction created at
\* Date.now() = t: the cursor over index 'timestamp' will find the records in
\* range.  ok: whether the cursor request succeeds; a transaction whose
\* request fails is aborted and deletes nothing.
cleanupOldRecordings(by, t, ok) ==
    LET cutoff == Cutoff(t)
        range == {x \in store : InRange(x.timestamp, cutoff)}
    IN /\ store' = IF ok THEN store \ range ELSE store
       /\ sweeps' = Append(sweeps,
             [by |-> by, at |-> t, cutoff |-> cutoff, firstFree |-> nextId,
              found |-> IF ok THEN getAllRecordingsSortedByTimestamp(range) ELSE <<>>,
              deletedCount |-> 0, pc |-> IF ok THEN "running" ELSE "failing"])
       /\ now' = t

\* The caller calls cleanupOldRecordings()
CleanupCall(by, t) ==
    /\ Len(sweeps) < MaxSweeps
    /\ cleanupOldRecordings(by, t, TRUE)
    /\ UNCHANGED <<nextId, saves, serial, reads, dels, boot, cleanupTimer, captureVars, playVars, focusVars>>

\* The cursor's onsuccess with a record: cursor.delete(), deletedCount++,
\* cursor.continue()
CursorStep(w) ==
    /\ w \in Sweeps /\ sweeps[w].pc = "running"
    /\ sweeps[w].deletedCount < Len(sweeps[w].found)
    /\ sweeps' = [sweeps EXCEPT ![w].deletedCount = @ + 1]
    /\ UNCHANGED <<store, nextId, saves, serial, reads, dels, boot, cleanupTimer,
                   now, captureVars, playVars, focusVars>>

\* The cursor's onsuccess past the last record: resolve(deletedCount).  When
\* the sweep is init's, the next reaction of init's chain sets the hourly
\* interval.
CursorEnd(w) ==
    /\ w \in Sweeps /\ sweeps[w].pc = "running"
    /\ sweeps[w].deletedCount = Len(sweeps[w].found)
    /\ sweeps' = [sweeps EXCEPT ![w].pc = "done"]
    /\ IF sweeps[w].by = "init"
       THEN cleanupTimer' = TRUE /\ boot' = "ready"
       ELSE UNCHANGED <<boot, cleanupTimer>>
    /\ UNCHANGED <<store, nextId, saves, serial, reads, dels, now, captureVars, playVars, focusVars>>

\* The caller calls deleteRecording(id): the delete transaction is created
DeleteCall(id) ==
    /\ store' = deleteRecording(store, {id})
    /\ dels' = Append(dels, [id |-> id, before |-> store, pc |-> "deleting"])
    /\ UNCHANGED <<nextId, saves, serial, sweeps, reads, boot, cleanupTimer,
                   now, captureVars, playVars, focusVars>>

\* store.delete's onsuccess: deleteRecording resolves
DeleteDone(d) ==
    /\ d \in Dels /\ dels[d].pc = "deleting"
    /\ dels' = [dels EXCEPT ![d].pc = "done"]
    /\ UNCHANGED <<store, nextId, saves, serial, sweeps, reads, boot, cleanupTimer,
                   now, captureVars, playVars, focusVars>>

\* store.getAll(): the records in primary-key order
RECURSIVE getAllByKey(_)
getAllByKey(recs) ==
    IF recs = {} THEN <<>>
    ELSE LET first == CHOOSE x \in recs : \A y \in recs : x.id <= y.id
         IN <<first>> \o getAllByKey(recs \ {first})

\* (mutant) the comparator of getAllRecordings with its operands exchanged
CompareOldestFirst(a, b) == a.timestamp - b.timestamp

\* getAllRecordings: the comparator given to results.sort
CompareNewestFirst(a, b) == b.timestamp - a.timestamp

\* Array.prototype.sort with CompareNewestFirst: a stable sort.  Insert x
\* after the elements that do not compare greater than it.
RECURSIVE InsertNewestFirst(_, _)
InsertNewestFirst(sorted, x) ==
    IF sorted = <<>> THEN <<x>>
    ELSE IF CompareNewestFirst(Head(sorted), x) <= 0
         THEN <<Head(sorted)>> \o InsertNewestFirst(Tail(sorted), x)
         ELSE <<x>> \o sorted

RECURSIVE SortNewestFirst(_)
SortNewestFirst(seq) ==
    IF seq = <<>> THEN <<>>
    ELSE InsertNewestFirst(SortNewestFirst(SubSeq(seq, 1, Len(seq) - 1)), Last(seq))

\* getAllRecordings() is called: its readonly transaction is created
ReadAllCall ==
    /\ Len(reads) < MaxReads
    /\ reads' = Append(reads,
          [op |-> "all", arg |-> "", raw |-> getAllByKey(store),
           during |-> {w \in Sweeps : sweeps[w].pc = "running"},
           result |-> <<>>, pc |-> "reading"])
    /\ UNCHANGED <<store, nextId, saves, serial, sweeps, dels, boot, cleanupTimer,
                   now, captureVars, playVars, focusVars>>

\* getAllRecordings' onsuccess: the results are sorted and resolved
ReadAllDone(r) ==
    /\ r \in Reads /\ reads[r].pc = "reading" /\ reads[r].op = "all"
    /\ reads' = [reads EXCEPT ![r].result = SortNewestFirst(reads[r].raw),
                              ![r].pc = "done"]
    /\ UNCHANGED <<store, nextId, saves, serial, sweeps, dels, boot, cleanupTimer,
                   now, captureVars, playVars, focusVars>>

\* Records of earlier page loads, one around each side of the age ceiling as
\* seen from time 0: a millisecond older, exactly as old, a millisecond younger
AgedStore ==
    {Record(1, PlainMetadata, MAX_BLOB_SIZE_BYTES, 0 - MAX_AGE_MS - 1, ""),
     Record(2, PlainMetadata, MAX_BLOB_SIZE_BYTES, 0 - MAX_AGE_MS, ""),
     Record(3, PlainMetadata, MAX_BLOB_SIZE_BYTES, 0 - MAX_AGE_MS + 1, "")}

\* The sweep runs alongside saves and whole-store reads
InitSweep ==
    /\ InitCaptureIdle
    /\ store = AgedStore
    /\ nextId = Cardinality(AgedStore) + 1
    /\ saves = <<>>
    /\ serial = TRUE
    /\ InitArchiveIdle

NextSweep ==
    \/ \E size \in {MAX_BLOB_SIZE_BYTES} :
          Len(saves) < MaxArchiveSaves /\ SaveCall(size, PlainMetadata)
    \/ \E p \in Saves, t \in DateNow : SaveEvict(p, t)
    \/ \E p \in Saves : SaveDone(p)
    \/ \E t \in DateNow : CleanupCall("caller", t)
    \/ \E w \in Sweeps : CursorStep(w)
    \/ \E w \in Sweeps : CursorEnd(w)
    \/ ReadAllCall
    \/ \E r \in Reads : ReadAllDone(r)

SpecSweep == InitSweep /\ [][NextSweep]_vars

\* A store at the total ceiling whose two oldest records have reached the age
\* ceiling at time 0
FullAgedStore ==
    {Record(i, PlainMetadata, MAX_BLOB_SIZE_BYTES,
            IF i <= 2 THEN 0 - MAX_AGE_MS ELSE 0, "") : i \in 1..FullCount}

\* Ids a caller passes to deleteRecording: the oldest record's, the newest
\* one issued, and one never issued
DeleteIds == {1, nextId - 1, nextId}

\* Saves with eviction, sweeps and explicit deletes on one store
InitArchive ==
    /\ InitCaptureIdle
    /\ store = FullAgedStore
    /\ nextId = FullCount + 1
    /\ saves = <<>>
    /\ serial = TRUE
    /\ InitArchiveIdle

NextArchive ==
    \/ \E size \in {MAX_BLOB_SIZE_BYTES} :
          Len(saves) < MaxArchiveSaves /\ SaveCall(size, PlainMetadata)
    \/ \E p \in Saves, t \in DateNow : SaveEvict(p, t)
    \/ \E p \in Saves, t \in DateNow : SaveAdd(p, t)
    \/ \E p \in Saves : SaveDone(p)
    \/ \E t \in DateNow : CleanupCall("caller", t)
    \/ \E w \in Sweeps : CursorStep(w)
    \/ \E w \in Sweeps : CursorEnd(w)
    \/ \E id \in DeleteIds : Len(dels) < MaxDeletes /\ DeleteCall(id)
    \/ \E d \in Dels : DeleteDone(d)

SpecArchive == InitArchive /\ [][NextArchive]_vars

\* This step is a call of cleanupOldRecordings
SweepStep == Len(sweeps') = Len(sweeps) + 1

\* C13: right after cleanupOldRecordings has run at time now, every record
\* with now - timestamp > 7 days is absent and every record with
\* now - timestamp <= 7 days, exactly 7 days included, is still present.
C13_SweepKeepsBoundary ==
    [][SweepStep =>
         \A x \in store :
            IF now' - x.timestamp > 7 * 24 * 60 * 60 * 1000
            THEN x \notin store'
            ELSE x \in store']_vars

-----------------------------------------------------------------------------
(* Startup: init() opens the database, runs a first sweep and then sets the *)
(* hourly interval.                                                         *)

\* init() is called
InitCall ==
    /\ boot = "none"
    /\ supported' = InitSupported(platform)
    /\ boot' = IF InitSupported(platform) THEN "opening" ELSE "off"
    /\ UNCHANGED <<state, mediaRecorder, recordedChunks, recordingStream,
                   recordingStartTime, autoStopTimer, mimeType, audioContext,
                   platform, streams, recorders, timers, calls, now,
                   store, nextId, saves, serial, sweeps, reads, dels, cleanupTimer,
                   playVars, focusVars>>

\* openDatabase resolves: init's first reaction calls cleanupOldRecordings()
InitOpened(t, ok) ==
    /\ boot = "opening"
    /\ boot' = "sweeping"
    /\ cleanupOldRecordings("init", t, ok)
    /\ UNCHANGED <<nextId, saves, serial, reads, dels, cleanupTimer, captureVars, playVars, focusVars>>

\* openDatabase rejects: init's catch handler logs, nothing else runs
InitOpenError ==
    /\ boot = "opening"
    /\ boot' = "failed"
    /\ UNCHANGED <<store, nextId, saves, serial, sweeps, reads, dels, cleanupTimer,
                   now, captureVars, playVars, focusVars>>

\* The cursor request's onerror: cleanupOldRecordings rejects.  When the sweep
\* is init's, init's catch handler logs and the interval is never set.
SweepError(w) ==
    /\ w \in Sweeps /\ sweeps[w].pc = "failing"
    /\ sweeps' = [sweeps EXCEPT ![w].pc = "failed"]
    /\ boot' = IF sweeps[w].by = "init" THEN "failed" ELSE boot
    /\ UNCHANGED <<store, nextId, saves, serial, reads, dels, cleanupTimer,
                   now, captureVars, playVars, focusVars>>

\* The hourly interval fires: cleanupOldRecordings().catch(log)
IntervalFire(t) ==
    /\ cleanupTimer
    /\ Cardinality({w \in Sweeps : sweeps[w].by = "timer"}) < MaxSweeps
    /\ cleanupOldRecordings("timer", t, TRUE)
    /\ UNCHANGED <<nextId, saves, serial, reads, dels, boot, cleanupTimer, captureVars, playVars, focusVars>>

\* The page has loaded and init() has not run yet; earlier page loads left
\* any of the aged records
InitBoot ==
    /\ platform \in Platforms
    /\ supported = FALSE
    /\ state = "idle"
    /\ mediaRecorder = Null
    /\ recordedChunks = <<>>
    /\ recordingStream = Null
    /\ recordingStartTime = 0
    /\ autoStopTimer = Null
    /\ mimeType = ""
    /\ audioContext = FALSE
    /\ streams = <<>>
    /\ recorders = <<>>
    /\ timers = <<>>
    /\ calls = <<>>
    /\ InitPlayIdle
    /\ InitFocusIdle
    /\ now \in 0..MaxNow
    /\ store \in SUBSET AgedStore
    /\ nextId = Cardinality(AgedStore) + 1
    /\ saves = <<>>
    /\ serial = TRUE
    /\ InitArchiveIdle

NextBoot ==
    \/ InitCall
    \/ \E t \in DateNow, ok \in BOOLEAN : InitOpened(t, ok)
    \/ InitOpenError
    \/ \E w \in Sweeps : CursorStep(w)
    \/ \E w \in Sweeps : CursorEnd(w)
    \/ \E w \in Sweeps : SweepError(w)
    \/ \E t \in DateNow : IntervalFire(t)

\* The event loop runs every callback that is ready, and the interval keeps
\* firing; nothing obliges the page to call init()
FairBoot ==
    /\ WF_vars(\E t \in DateNow, ok \in BOOLEAN : InitOpened(t, ok) \/ InitOpenError)
    /\ WF_vars(\E w \in Sweeps : CursorStep(w) \/ CursorEnd(w) \/ SweepError(w))
    /\ WF_vars(\E t \in DateNow : IntervalFire(t))

SpecBoot == InitBoot /\ [][NextBoot]_vars /\ FairBoot

\* A record older than the age ceiling is in the store
ExpiredInStore == \E x \in store : now - x.timestamp > MAX_AGE_MS

\* C15: once init has been called on a supported device, a record older than
\* the age ceiling is eventually deleted, also when the database open or the
\* initial sweep fails.
C15_ExpiredEventuallyDeleted ==
    (boot # "none" /\ supported /\ ExpiredInStore) ~> ~ExpiredInStore

\* The fields of a persisted record
RecordFields == DOMAIN Record(0, PlainMetadata, 0, 0, "")

\* The records sweep w found, as a set
Found(w) == Range(sweeps[w].found)

\* C14: with sweeps, saves and whole-store reads in flight together, a sweep
\* deletes a record that a save inserted only if that record is older than
\* the age ceiling at the sweep's time, its cursor visits no record twice
\* and counts no more than it found, and a reader gets whole records only,
\* never a store in which a sweep's deletions are half done.
C14_SweepIsolated ==
    /\ \A w \in Sweeps :
          /\ \A i, j \in 1..Len(sweeps[w].found) :
                sweeps[w].found[i].id = sweeps[w].found[j].id => i = j
          /\ sweeps[w].deletedCount <= Len(sweeps[w].found)
          /\ sweeps[w].pc = "done" => sweeps[w].deletedCount = Len(sweeps[w].found)
          /\ \A x \in Found(w) :
                x.id >= sweeps[w].firstFree \/ (\E p \in Saves : saves[p].id = x.id)
                   => sweeps[w].at - x.timestamp > MAX_AGE_MS
    /\ \A p \in Saves :
          saves[p].id # Null =>
             \/ \E x \in store : x.id = saves[p].id
             \/ \E w \in Sweeps : \E x \in Found(w) : x.id = saves[p].id
    /\ \A r \in Reads :
          /\ \A i \in 1..Len(reads[r].raw) : DOMAIN reads[r].raw[i] = RecordFields
          /\ \A w \in Sweeps :
                \/ Found(w) \cap Range(reads[r].raw) = {}
                \/ Found(w) \subseteq Range(reads[r].raw)

\* While a sweep that found records is still running, a save has inserted its
\* record and a reader that started during the sweep has returned it
C14_Witness ==
    \E w \in Sweeps, p \in Saves, r \in Reads :
        /\ sweeps[w].pc = "running" /\ sweeps[w].found # <<>>
        /\ saves[p].id # Null /\ saves[p].id >= sweeps[w].firstFree
        /\ w \in reads[r].during /\ reads[r].pc = "done"
        /\ \E i \in 1..Len(reads[r].result) : reads[r].result[i].id = saves[p].id

-----------------------------------------------------------------------------
(* Queries by story: saves with the caller's metadata, then                 *)
(* getRecordingsForStory.                                                   *)

\* The stories the caller records and asks for
StoryIds == {"a", "b"}

\* The attempt numbers the caller supplies
AttemptNumbers == {0, 1, 2}

\* The metadata the caller passes to saveRecording
QueryMetadata ==
    {[PlainMetadata EXCEPT !.storyId = s, !.attemptNumber = n] :
        s \in StoryIds, n \in AttemptNumbers}

\* index 'storyId' getAll(storyId): the records of that story, in the index's
\* order, which for one storyId is the order of the primary key
getAllByStoryId(recs, storyId) ==
    getAllByKey({x \in recs : x.storyId = storyId})

\* (mutant) a comparator that looks at the timestamp only
CompareTimestampOnly(a, b) == a.timestamp - b.timestamp

\* getRecordingsForStory: the comparator given to results.sort
CompareAttemptThenTimestamp(a, b) ==
    IF a.attemptNumber # b.attemptNumber
    THEN a.attemptNumber - b.attemptNumber
    ELSE a.timestamp - b.timestamp

\* Array.prototype.sort with CompareAttemptThenTimestamp: a stable sort
RECURSIVE InsertByAttempt(_, _)
InsertByAttempt(sorted, x) ==
    IF sorted = <<>> THEN <<x>>
    ELSE IF CompareAttemptThenTimestamp(Head(sorted), x) <= 0
         THEN <<Head(sorted)>> \o InsertByAttempt(Tail(sorted), x)
         ELSE <<x>> \o sorted

RECURSIVE SortByAttempt(_)
SortByAttempt(seq) ==
    IF seq = <<>> THEN <<>>
    ELSE InsertByAttempt(SortByAttempt(SubSeq(seq, 1, Len(seq) - 1)), Last(seq))

\* getRecordingsForStory(storyId) is called: its readonly transaction is created
ReadStoryCall(storyId) ==
    /\ Len(reads) < MaxReads
    /\ reads' = Append(reads,
          [op |-> "story", arg |-> storyId, raw |-> getAllByStoryId(store, storyId),
           during |-> {w \in Sweeps : sweeps[w].pc = "running"},
           result |-> <<>>, pc |-> "reading"])
    /\ UNCHANGED <<store, nextId, saves, serial, sweeps, dels, boot, cleanupTimer,
                   now, captureVars, playVars, focusVars>>

\* getRecordingsForStory's onsuccess: the results are sorted and resolved
ReadStoryDone(r) ==
    /\ r \in Reads /\ reads[r].pc = "reading" /\ reads[r].op = "story"
    /\ reads' = [reads EXCEPT ![r].result = SortByAttempt(reads[r].raw),
                              ![r].pc = "done"]
    /\ UNCHANGED <<store, nextId, saves, serial, sweeps, dels, boot, cleanupTimer,
                   now, captureVars, playVars, focusVars>>

\* A second attempt at story 'a' recorded by an earlier page load
EarlierAttempt ==
    Record(1, [PlainMetadata EXCEPT !.attemptNumber = 2], MAX_BLOB_SIZE_BYTES, 0 - 1, "")

\* The store is empty or holds the earlier attempt; the key generator has
\* issued key 1 in both cases
InitQuery ==
    /\ InitCaptureIdle
    /\ store \in {{}, {EarlierAttempt}}
    /\ nextId = 2
    /\ saves = <<>>
    /\ serial = TRUE
    /\ InitArchiveIdle

NextQuery ==
    \/ \E metadata \in QueryMetadata :
          Len(saves) < MaxQuerySaves /\ SaveCall(MAX_BLOB_SIZE_BYTES, metadata)
    \/ \E p \in Saves, t \in DateNow : SaveEvict(p, t)
    \/ \E p \in Saves : SaveDone(p)
    \/ \E storyId \in StoryIds : ReadStoryCall(storyId)
    \/ \E r \in Reads : ReadStoryDone(r)

SpecQuery == InitQuery /\ [][NextQuery]_vars

\* seq is ordered by (attemptNumber, timestamp) ascending
AscendingByAttempt(seq) ==
    \A i, j \in 1..Len(seq) :
        i < j => \/ seq[i].attemptNumber < seq[j].attemptNumber
                 \/ /\ seq[i].attemptNumber = seq[j].attemptNumber
                    /\ seq[i].timestamp <= seq[j].timestamp

\* C16: getRecordingsForStory(storyId) reads exactly the records of the store
\* whose storyId is the argument, each once, and resolves with the same
\* records ordered by (attemptNumber, timestamp) ascending.
C16_StoryRecordsInOrder ==
    /\ [](\A r \in Reads :
            reads[r].op = "story" /\ reads[r].pc = "done" =>
                /\ Len(reads[r].result) = Len(reads[r].raw)
                /\ Range(reads[r].result) = Range(reads[r].raw)
                /\ AscendingByAttempt(reads[r].result))
    /\ [][\A storyId \in StoryIds :
            ReadStoryCall(storyId) =>
                /\ Range(Last(reads').raw) = {x \in store : x.storyId = storyId}
                /\ Len(Last(reads').raw) = Cardinality(Range(Last(reads').raw))]_vars

\* Attempts 2, 1, 1 of one story were inserted in that order with increasing
\* timestamps, and the query has returned them as 1, 1, 2
C16_Witness ==
    \E r \in Reads :
        /\ reads[r].op = "story" /\ reads[r].pc = "done"
        /\ Len(reads[r].raw) = 3
        /\ <<reads[r].raw[1].attemptNumber, reads[r].raw[2].attemptNumber,
             reads[r].raw[3].attemptNumber>> = <<2, 1, 1>>
        /\ reads[r].raw[1].timestamp < reads[r].raw[2].timestamp
        /\ reads[r].raw[2].timestamp < reads[r].raw[3].timestamp
        /\ <<reads[r].result[1].attemptNumber, reads[r].result[2].attemptNumber,
             reads[r].result[3].attemptNumber>> = <<1, 1, 2>>

\* seq is ordered by timestamp descending
NewestFirst(seq) ==
    \A i, j \in 1..Len(seq) : i < j => seq[i].timestamp >= seq[j].timestamp

\* C17: getAllRecordings reads every record of the store, each once, and
\* resolves with the same records ordered by timestamp descending.
C17_AllRecordsNewestFirst ==
    /\ [](\A r \in Reads :
            reads[r].op = "all" /\ reads[r].pc = "done" =>
                /\ Len(reads[r].result) = Len(reads[r].raw)
                /\ Range(reads[r].result) = Range(reads[r].raw)
                /\ NewestFirst(reads[r].result))
    /\ [][ReadAllCall =>
            /\ Range(Last(reads').raw) = store
            /\ Len(Last(reads').raw) = Cardinality(store)]_vars

\* getAllRecordings has returned records of different ages, which the store
\* handed over oldest first, together with a record saved in this page load
C17_Witness ==
    \E r \in Reads :
        /\ reads[r].op = "all" /\ reads[r].pc = "done"
        /\ Len(reads[r].raw) >= 3
        /\ reads[r].raw[1].timestamp < reads[r].raw[2].timestamp
        /\ reads[r].result[1].timestamp > reads[r].result[2].timestamp
        /\ \E p \in Saves : reads[r].result[1].id = saves[p].id

-----------------------------------------------------------------------------
(* Deletes by id: the caller deletes records, present or not, repeatedly.   *)

InitDelete ==
    /\ InitCaptureIdle
    /\ store \in SUBSET AgedStore
    /\ nextId = Cardinality(AgedStore) + 1
    /\ saves = <<>>
    /\ serial = TRUE
    /\ InitArchiveIdle

NextDelete ==
    \/ \E id \in DeleteIds : Len(dels) < MaxDeleteCalls /\ DeleteCall(id)
    \/ \E d \in Dels : DeleteDone(d)

SpecDelete == InitDelete /\ [][NextDelete]_vars

\* C18: deleteRecording(id) never fails; it removes the record with that id
\* and no other, leaves the store unchanged when no record has that id, and
\* leaves it unchanged when the same id was deleted before.
C18_DeleteIdempotent ==
    /\ [](\A d \in Dels : dels[d].pc \in {"deleting", "done"})
    /\ [][\A id \in DeleteIds :
            DeleteCall(id) =>
                /\ store' = {x \in store : x.id # id}
                /\ (\A x \in store : x.id # id) => store' = store
                /\ (\E d \in Dels : dels[d].id = id) => store' = store]_vars

\* The same id was deleted twice, the first time removing its record from a
\* store that held others and the second time finding none; both calls
\* resolved
C18_Witness ==
    /\ store # {}
    /\ \E d1, d2 \in Dels :
          /\ d1 < d2 /\ dels[d1].id = dels[d2].id
          /\ dels[d1].pc = "done" /\ dels[d2].pc = "done"
          /\ \E x \in dels[d1].before : x.id = dels[d1].id
          /\ dels[d2].before = store

-----------------------------------------------------------------------------
(* Round trip: a record is saved and fetched by the id saveRecording        *)
(* returned.                                                                *)

\* store.get(id): the record with that key, if there is one
get(recs, id) == {x \in recs : x.id = id}

\* The metadata fields of a fetched record
MetadataOf(x) ==
    [storyId |-> x.storyId, storyTitle |-> x.storyTitle, level |-> x.level,
     attemptNumber |-> x.attemptNumber, mimeType |-> x.mimeType,
     duration |-> x.duration, wpm |-> x.wpm]

\* C19: the record fetched by the id a saveRecording call returned has the
\* payload and the metadata the caller passed, unmodified.
C19_RoundTrip ==
    \A p \in Saves :
        saves[p].pc = "done" =>
            \A x \in get(store, saves[p].id) :
                /\ x.size = saves[p].size
                /\ MetadataOf(x) = saves[p].metadata

-----------------------------------------------------------------------------
(* Ids over inserts, deletes, evictions and sweeps.                         *)

\* The ids issued before this page load: those of the records of
\* FullAgedStore, deleted since or not
EarlierIds == 1..FullCount

\* C20: the id a saveRecording call returns is different from the id of every
\* other call and from every id issued before, also those of records deleted,
\* evicted or swept since: each id issued is at least the key generator's
\* number, which is above every id issued so far and never decreases.
C20_IdsNeverReused ==
    /\ [](/\ \A x \in store : x.id < nextId
          /\ \A p \in Saves :
                saves[p].id # Null =>
                    /\ saves[p].id < nextId
                    /\ saves[p].id \notin EarlierIds
                    /\ \A q \in Saves : q # p => saves[q].id # saves[p].id)
    /\ [][/\ nextId' >= nextId
          /\ \A p \in Saves :
                AddCreated(p) => saves'[p].id >= nextId /\ nextId' > saves'[p].id]_vars

\* A save has returned an id after the newest record was deleted by the
\* caller, and after the sweep or its own eviction pass removed others
C20_Witness ==
    \E p \in Saves, d \in Dels :
        /\ saves[p].pc = "done" /\ saves[p].id # Null
        /\ dels[d].id = FullCount
        /\ \E x \in dels[d].before : x.id = FullCount
        /\ \A i \in 1..Len(saves[p].recordings) : saves[p].recordings[i].id # FullCount
        /\ \/ saves[p].deleted # <<>>
           \/ \E w \in Sweeps : sweeps[w].found # <<>> /\ sweeps[w].firstFree <= saves[p].id

-----------------------------------------------------------------------------
(* Playback: playRecording, stopPlayback and the events of the Audio        *)
(* elements.                                                                *)
(*                                                                          *)
(* An Audio element a is audios[a] = [url, status, promise, play]:          *)
(*   status   "starting" (play() called, playback not begun), "playing",    *)
(*            "paused", "ended" or "failed";                                *)
(*   promise  the promise play() returned: "pending", "resolved",           *)
(*            "aborted" (rejected by pause() or by a load failure, its      *)
(*            catch handler not yet run) or "handled";                      *)
(*   play     the playRecording call that created it.                       *)

Plays == 1..Len(plays)
Audios == 1..Len(audios)

\* URL.revokeObjectURL(u)
RevokeObjectURL(ur, u) == [ur EXCEPT ![u] = @ + 1]

\* (mutant) a check that never finds the record missing
IsRecordMissingNever(result) == FALSE

\* playRecording's check of request.result: store.get found no record
IsRecordMissing(result) == result = {}

\* stopPlaybackInternal(): what it leaves in the four things it touches.
\* pause() on an element whose play() promise is pending rejects that promise.
stopPlaybackInternal(ca, au, ur) ==
    [currentAudio |-> Null,
     audios       |-> IF ca = Null THEN au
                      ELSE [au EXCEPT ![ca].status = "paused",
                                      ![ca].promise = IF @ = "pending" THEN "aborted" ELSE @],
     urls         |-> IF ca = Null THEN ur ELSE RevokeObjectURL(ur, au[ca].url),
     state        |-> "idle"]

\* Reject the promise of playRecording call p unless it is settled already
RejectPlay(pl, p, err) ==
    [pl EXCEPT ![p] = IF @.st = "starting" THEN [@ EXCEPT !.st = "rejected", !.err = err] ELSE @]

\* The caller calls playRecording(id): store.get(id) in a readonly transaction
PlayCall(id) ==
    /\ Len(plays) < MaxPlays
    /\ plays' = Append(plays,
          [id |-> id, result |-> get(store, id), st |-> "reading", err |-> "",
           audio |-> Null, value |-> Null])
    /\ UNCHANGED <<currentAudio, audios, urls, captureVars, now, storeVars, focusVars>>

\* store.get's onsuccess: reject when there is no record; otherwise stop the
\* current playback, create the object URL and the Audio element, and call
\* play()
PlayLoaded(p) ==
    /\ p \in Plays /\ plays[p].st = "reading"
    /\ IF IsRecordMissing(plays[p].result)
       THEN /\ plays' = [plays EXCEPT ![p].st = "rejected", ![p].err = "RecordNotFound"]
            /\ UNCHANGED <<currentAudio, audios, urls, state>>
       ELSE LET sp == stopPlaybackInternal(currentAudio, audios, urls)
                u == Len(urls) + 1
                a == Len(audios) + 1
            IN /\ urls' = Append(sp.urls, 0)
               /\ audios' = Append(sp.audios,
                     [url |-> u, status |-> "starting", promise |-> "pending", play |-> p])
               /\ currentAudio' = a
               /\ state' = "playing"
               /\ plays' = [plays EXCEPT ![p].st = "starting", ![p].audio = a]
    /\ UNCHANGED <<supported, mediaRecorder, recordedChunks, recordingStream,
                   recordingStartTime, autoStopTimer, mimeType, audioContext,
                   platform, streams, recorders, timers, calls, now, storeVars, focusVars>>

\* Playback of element a begins: play()'s promise resolves and the then
\* handler resolves playRecording with currentAudio
PlayResolved(a) ==
    /\ a \in Audios /\ audios[a].status = "starting" /\ audios[a].promise = "pending"
    /\ audios' = [audios EXCEPT ![a].status = "playing", ![a].promise = "resolved"]
    /\ plays' = [plays EXCEPT ![audios[a].play] =
          IF @.st = "starting" THEN [@ EXCEPT !.st = "resolved", !.value = currentAudio] ELSE @]
    /\ UNCHANGED <<currentAudio, urls, captureVars, now, storeVars, focusVars>>

\* play()'s catch handler for element a
PlayCatch(a) ==
    /\ urls' = RevokeObjectURL(urls, audios[a].url)
    /\ state' = "idle"
    /\ currentAudio' = Null
    /\ plays' = RejectPlay(plays, audios[a].play, "PlaybackFailed")
    /\ UNCHANGED <<supported, mediaRecorder, recordedChunks, recordingStream,
                   recordingStartTime, autoStopTimer, mimeType, audioContext,
                   platform, streams, recorders, timers, calls, now, storeVars, focusVars>>

\* The browser refuses to begin playback of element a (autoplay policy):
\* play()'s promise rejects and the catch handler runs
PlayBlocked(a) ==
    /\ a \in Audios /\ audios[a].status = "starting" /\ audios[a].promise = "pending"
    /\ audios' = [audios EXCEPT ![a].status = "paused", ![a].promise = "handled"]
    /\ PlayCatch(a)

\* The rejection caused by pause() or by a load failure reaches the catch
\* handler of element a
PlayAborted(a) ==
    /\ a \in Audios /\ audios[a].promise = "aborted"
    /\ audios' = [audios EXCEPT ![a].promise = "handled"]
    /\ PlayCatch(a)

\* Element a plays to its end: currentAudio.onended
AudioEnded(a) ==
    /\ a \in Audios /\ audios[a].status = "playing"
    /\ audios' = [audios EXCEPT ![a].status = "ended"]
    /\ urls' = RevokeObjectURL(urls, audios[a].url)
    /\ state' = "idle"
    /\ currentAudio' = Null
    /\ UNCHANGED <<plays, supported, mediaRecorder, recordedChunks, recordingStream,
                   recordingStartTime, autoStopTimer, mimeType, audioContext,
                   platform, streams, recorders, timers, calls, now, storeVars, focusVars>>

\* Element a fails to load or decode: currentAudio.onerror; a play() promise
\* still pending is rejected as well
AudioError(a) ==
    /\ a \in Audios /\ audios[a].status \in {"starting", "playing"}
    /\ audios' = [audios EXCEPT ![a].status = "failed",
                                ![a].promise = IF @ = "pending" THEN "aborted" ELSE @]
    /\ urls' = RevokeObjectURL(urls, audios[a].url)
    /\ state' = "idle"
    /\ currentAudio' = Null
    /\ plays' = RejectPlay(plays, audios[a].play, "PlayFailed")
    /\ UNCHANGED <<supported, mediaRecorder, recordedChunks, recordingStream,
                   recordingStartTime, autoStopTimer, mimeType, audioContext,
                   platform, streams, recorders, timers, calls, now, storeVars, focusVars>>

\* The caller calls stopPlayback()
StopPlayback ==
    /\ LET sp == stopPlaybackInternal(currentAudio, audios, urls) IN
       /\ currentAudio' = sp.currentAudio
       /\ audios' = sp.audios
       /\ urls' = sp.urls
       /\ state' = sp.state
    /\ UNCHANGED <<plays, supported, mediaRecorder, recordedChunks, recordingStream,
                   recordingStartTime, autoStopTimer, mimeType, audioContext,
                   platform, streams, recorders, timers, calls, now, storeVars, focusVars>>

\* The ids the caller asks to play: two stored clips and one never stored
PlayIds == {1, 2, 3}

\* Two clips are stored; nothing is being recorded or played
InitPlayback ==
    /\ InitCaptureIdle
    /\ store = FilledStore(2)
    /\ nextId = 3
    /\ saves = <<>>
    /\ serial = TRUE
    /\ InitArchiveIdle

NextPlayback ==
    \/ \E id \in PlayIds : PlayCall(id)
    \/ \E p \in Plays : PlayLoaded(p)
    \/ \E a \in Audios : PlayResolved(a)
    \/ \E a \in Audios : PlayBlocked(a)
    \/ \E a \in Audios : PlayAborted(a)
    \/ \E a \in Audios : AudioEnded(a)
    \/ \E a \in Audios : AudioError(a)
    \/ StopPlayback

SpecPlayback == InitPlayback /\ [][NextPlayback]_vars

\* C21: a playRecording whose id resolves to no record is rejected with
\* RecordNotFound, and the step that rejects it leaves currentAudio, the
\* Audio elements, the object URLs and the state as they were.
C21_NotFoundLeavesPlayback ==
    /\ [](\A p \in Plays :
            plays[p].result = {} /\ plays[p].st # "reading" =>
                /\ plays[p].st = "rejected" /\ plays[p].err = "RecordNotFound"
                /\ plays[p].audio = Null)
    /\ [][\A p \in Plays :
            PlayLoaded(p) /\ plays[p].result = {} =>
                UNCHANGED <<currentAudio, audios, urls, state>>]_vars

\* A playRecording for an id never stored was rejected while a clip was
\* playing, and the clip is still playing
C21_Witness ==
    \E p \in Plays :
        /\ plays[p].result = {} /\ plays[p].st = "rejected"
        /\ p > 1 /\ plays[p - 1].st = "resolved"
        /\ currentAudio # Null /\ audios[currentAudio].status = "playing"
        /\ urls[audios[currentAudio].url] = 0
        /\ state = "playing"

\* A handler of element a runs in this step
HandlerStep(a) ==
    PlayResolved(a) \/ PlayBlocked(a) \/ PlayAborted(a) \/ AudioEnded(a) \/ AudioError(a)

\* C22: a playRecording that finds a clip playing pauses it and releases its
\* URL in the step that creates the second clip's element, and no handler of
\* the first clip changes currentAudio or the state while the second clip is
\* the current one.
C22_FirstClipStoppedCleanly ==
    /\ [][\A p \in Plays :
            PlayLoaded(p) /\ plays[p].result # {} /\ currentAudio # Null =>
                /\ audios'[currentAudio].status = "paused"
                /\ urls'[audios[currentAudio].url] = 1
                /\ currentAudio' = Len(audios')]_vars
    /\ [][\A a \in Audios :
            HandlerStep(a) /\ audios[a].status = "paused" /\ currentAudio \notin {Null, a} =>
                UNCHANGED <<currentAudio, state>>]_vars

\* C23: the object URL of every Audio element is released exactly once when
\* its playback is over (ended, failed, refused, stopped or pre-empted), and
\* never more than once.
C23_OneReleasePerPlay ==
    \A a \in Audios :
        /\ urls[audios[a].url] <= 1
        /\ audios[a].status \in {"paused", "ended", "failed"} => urls[audios[a].url] = 1

\* Element a is audible: its playback has begun and has not been paused,
\* ended or failed
Audible(a) == audios[a].status = "playing"

\* C24: at most one clip is audible, and an audible clip is the one
\* currentAudio refers to.
C24_OneAudibleClipOwned ==
    /\ Cardinality({a \in Audios : Audible(a)}) <= 1
    /\ \A a \in Audios : Audible(a) => currentAudio = a

-----------------------------------------------------------------------------
(* Capture and playback on one page: both write the shared variable state.  *)

NextStudio ==
    \/ StartRecording
    \/ \E c \in 1..Len(calls), t \in DateNow : GumResolve(c, "ok", FALSE, t)
    \/ \E t \in DateNow : StopRecording(FALSE, t)
    \/ \E r \in 1..Len(recorders) : OnStop(r)
    \/ \E id \in PlayIds : PlayCall(id)
    \/ \E p \in Plays : PlayLoaded(p)
    \/ \E a \in Audios : PlayResolved(a)
    \/ \E a \in Audios : PlayAborted(a)
    \/ \E a \in Audios : AudioEnded(a)
    \/ StopPlayback

SpecStudio == InitPlayback /\ [][NextStudio]_vars

\* C25: stopPlayback with no current clip changes no engine state; a capture
\* session that is active stays in state 'recording'.
C25_StopPlaybackNoOp ==
    [][StopPlayback /\ currentAudio = Null => UNCHANGED <<captureVars, playVars>>]_vars

\* A playback event happens in this step
PlaybackStep ==
    \/ \E p \in Plays : PlayLoaded(p)
    \/ \E a \in Audios : HandlerStep(a)
    \/ StopPlayback

\* C30: whenever state is not 'recording' no input stream is held, no
\* recorder is held or recording and no deadline timer is armed; and no
\* playback event moves the state away from 'recording'.
C30_StateAgreesWithResources ==
    /\ [](state # "recording" =>
            /\ recordingStream = Null
            /\ mediaRecorder = Null
            /\ autoStopTimer = Null
            /\ \A r \in Recorders : recorders[r].rstate # "recording"
            /\ \A tid \in 1..Len(timers) : timers[tid] # "armed")
    /\ [][PlaybackStep /\ state = "recording" => state' = "recording"]_vars

-----------------------------------------------------------------------------
(* FocusMonitor (src/focus-monitor.js): the bridge to the host page's timer *)
(* and speech.                                                              *)
(*                                                                          *)
(* focusMonitor holds the module variables of the same names; idleTimeout   *)
(* and stage2Timeout are TRUE while the timeout is armed; returnTimeouts    *)
(* are the pending 1-second timeouts of tab returns.  awayFound, nudgeFound *)
(* and the found field of a return timeout record what the pause of that    *)
(* tab-away or nudge found: they are not in the source.                     *)

\* What a pause finds: the host timer running, the speech speaking unpaused
FoundBy(h) == [timer |-> h.timerRunning, speech |-> h.speaking /\ ~h.paused]

\* The host after a pause that found `found`
Paused(h, found) ==
    [h EXCEPT !.timerRunning = IF found.timer THEN FALSE ELSE @,
              !.timerInterval = IF found.timer THEN FALSE ELSE @,
              !.paused = IF found.speech THEN TRUE ELSE @]

\* The host after a resume whose flags are timer and speech
Resumed(h, timer, speech) ==
    [h EXCEPT !.timerRunning = IF timer THEN TRUE ELSE @,
              !.timerInterval = IF timer THEN TRUE ELSE @,
              !.paused = IF speech THEN FALSE ELSE @]

pauseAppTimer(fm, h) ==
    [fm   |-> [fm EXCEPT !.wasTimerRunning = FoundBy(h).timer,
                         !.wasSpeechActive = FoundBy(h).speech],
     host |-> Paused(h, FoundBy(h))]

resumeAppTimer(fm, h) ==
    [fm   |-> [fm EXCEPT !.wasSpeechActive = FALSE],
     host |-> Resumed(h, fm.wasTimerRunning, fm.wasSpeechActive)]

pauseAppTimerIdle(fm, h) ==
    [fm   |-> [fm EXCEPT !.wasTimerRunningIdle = FoundBy(h).timer,
                         !.wasSpeechActiveIdle = FoundBy(h).speech],
     host |-> Paused(h, FoundBy(h))]

resumeAppTimerIdle(fm, h) ==
    [fm   |-> [fm EXCEPT !.wasSpeechActiveIdle = FALSE],
     host |-> Resumed(h, fm.wasTimerRunningIdle, fm.wasSpeechActiveIdle)]

\* dismissIdle(): hide the nudge or the modal, resume, re-arm the idle timeout
dismissIdle(fm, h) ==
    LET cleared == [fm EXCEPT !.stage2Timeout = IF fm.idleStage = 1 THEN FALSE ELSE @,
                              !.idleStage = 0, !.isIdle = FALSE]
        r == resumeAppTimerIdle(cleared, h)
    IN [fm |-> [r.fm EXCEPT !.idleTimeout = TRUE], host |-> r.host]

FocusUnchanged ==
    UNCHANGED <<captureVars, now, storeVars, playVars>>

\* visibilitychange with document.hidden: the tab is left
TabAway ==
    /\ ~host.hidden
    /\ LET p == pauseAppTimer([focusMonitor EXCEPT !.isOffTab = TRUE,
                                                    !.awayFound = FoundBy(host)], host)
       IN /\ focusMonitor' = p.fm
          /\ host' = [p.host EXCEPT !.hidden = TRUE]
    /\ FocusUnchanged

\* visibilitychange without document.hidden: the tab is back, the resume is
\* set for one second later
TabReturn ==
    /\ host.hidden
    /\ Len(focusMonitor.returnTimeouts) < MaxReturnTimeouts
    /\ focusMonitor' = [focusMonitor EXCEPT
          !.isOffTab = FALSE,
          !.returnTimeouts = Append(@, [found |-> focusMonitor.awayFound])]
    /\ host' = [host EXCEPT !.hidden = FALSE]
    /\ FocusUnchanged

\* The timeout of the oldest tab return fires: resumeAppTimer unless idle
ReturnTimeout ==
    /\ focusMonitor.returnTimeouts # <<>>
    /\ LET fm == [focusMonitor EXCEPT !.returnTimeouts = Tail(@)]
           r == resumeAppTimer(fm, host)
       IN IF ~focusMonitor.isIdle
          THEN focusMonitor' = r.fm /\ host' = r.host
          ELSE focusMonitor' = fm /\ UNCHANGED host
    /\ FocusUnchanged

\* The idle timeout fires: showNudge() unless the tab is away
IdleTimeout ==
    /\ focusMonitor.idleTimeout
    /\ LET fm == [focusMonitor EXCEPT !.idleTimeout = FALSE] IN
       IF fm.isOffTab \/ fm.idleStage # 0
       THEN focusMonitor' = fm /\ UNCHANGED host
       ELSE LET p == pauseAppTimerIdle([fm EXCEPT !.idleStage = 1,
                                                  !.nudgeFound = FoundBy(host)], host)
            IN /\ focusMonitor' = [p.fm EXCEPT !.stage2Timeout = TRUE]
               /\ host' = p.host
    /\ FocusUnchanged

\* The stage-2 timeout fires: showFullIdle() unless the tab is away
Stage2Timeout ==
    /\ focusMonitor.stage2Timeout
    /\ focusMonitor' =
          IF focusMonitor.isOffTab
          THEN [focusMonitor EXCEPT !.stage2Timeout = FALSE]
          ELSE [focusMonitor EXCEPT !.stage2Timeout = FALSE, !.idleStage = 2, !.isIdle = TRUE]
    /\ UNCHANGED host
    /\ FocusUnchanged

\* onUserActivity: a mouse, key or touch event on the visible page
UserActivity ==
    /\ ~host.hidden
    /\ IF focusMonitor.idleStage = 1
       THEN LET d == dismissIdle(focusMonitor, host) IN
            focusMonitor' = d.fm /\ host' = d.host
       ELSE IF focusMonitor.idleStage = 0
       THEN focusMonitor' = [focusMonitor EXCEPT !.idleTimeout = TRUE] /\ UNCHANGED host
       ELSE UNCHANGED <<focusMonitor, host>>
    /\ FocusUnchanged

\* A click on the button of the idle modal
DismissClick ==
    /\ ~host.hidden /\ focusMonitor.idleStage = 2
    /\ LET d == dismissIdle(focusMonitor, host) IN
       focusMonitor' = d.fm /\ host' = d.host
    /\ FocusUnchanged

\* The monitor has started on a visible page whose timer and speech are each
\* on or off
InitFocus ==
    /\ platform = [apis |-> TRUE, types |-> {"audio/webm", "audio/mp4"}]
    /\ supported = TRUE
    /\ state = "idle"
    /\ mediaRecorder = Null
    /\ recordedChunks = <<>>
    /\ recordingStream = Null
    /\ recordingStartTime = 0
    /\ autoStopTimer = Null
    /\ mimeType = ""
    /\ audioContext = FALSE
    /\ streams = <<>>
    /\ recorders = <<>>
    /\ timers = <<>>
    /\ calls = <<>>
    /\ now = 0
    /\ InitStoreIdle
    /\ InitPlayIdle
    /\ focusMonitor = FocusStarted
    /\ \E running, speaking \in BOOLEAN :
          host = [hidden |-> FALSE, timerRunning |-> running, timerInterval |-> running,
                  speaking |-> speaking, paused |-> FALSE]

NextFocus ==
    \/ TabAway
    \/ TabReturn
    \/ ReturnTimeout
    \/ IdleTimeout
    \/ Stage2Timeout
    \/ UserActivity
    \/ DismissClick

SpecFocus == InitFocus /\ [][NextFocus]_vars

\* The host timer is started in this step
TimerStarted == ~host.timerRunning /\ host'.timerRunning

\* The speech is resumed in this step
SpeechResumed == host.paused /\ ~host'.paused

\* C26: the resume of a tab return starts the host timer, or resumes the
\* speech, only if the pause of that tab-away found it active, and the resume
\* of a dismissed nudge or idle modal only if the pause of that nudge did.
C26_ResumesOnlyWhatItPaused ==
    /\ [][ReturnTimeout =>
            /\ TimerStarted => Head(focusMonitor.returnTimeouts).found.timer
            /\ SpeechResumed => Head(focusMonitor.returnTimeouts).found.speech]_vars
    /\ [][(UserActivity /\ focusMonitor.idleStage = 1) \/ DismissClick =>
            /\ TimerStarted => focusMonitor.nudgeFound.timer
            /\ SpeechResumed => focusMonitor.nudgeFound.speech]_vars

-----------------------------------------------------------------------------
(* The eviction pass on stores of mixed records: large and empty payloads,  *)
(* equal and different timestamps.                                          *)

\* Payload sizes of the stored records; a record without blob counts as 0
\* bytes in autoDeleteOldest, like an empty one
StoredSizes == {0, 5 * MAX_BLOB_SIZE_BYTES}

\* Timestamps of the stored records
StoredTimestamps == {0 - 1, 0}

\* Three records of every combination of size and timestamp
MixedStores ==
    {{Record(i, PlainMetadata, size[i], timestamp[i], "") : i \in 1..3} :
        size \in [1..3 -> StoredSizes], timestamp \in [1..3 -> StoredTimestamps]}

\* Sizes of the incoming payload: empty, the blob ceiling, more than the
\* total ceiling
NeededSizes == {0, MAX_BLOB_SIZE_BYTES, 10 * MAX_BLOB_SIZE_BYTES + 1}

InitEvict ==
    /\ InitCaptureIdle
    /\ store \in MixedStores
    /\ nextId = 4
    /\ saves = <<>>
    /\ serial = TRUE
    /\ InitArchiveIdle

NextEvict ==
    \/ \E size \in NeededSizes :
          Len(saves) < MaxEvictSaves /\ SaveCall(size, PlainMetadata)
    \/ \E p \in Saves, t \in DateNow : SaveEvict(p, t)
    \/ \E p \in Saves, t \in DateNow : SaveAdd(p, t)
    \/ \E p \in Saves : SaveDone(p)

SpecEvict == InitEvict /\ [][NextEvict]_vars

\* The eviction pass of save p runs in this step
EvictionPass(p) == saves[p].pc = "reading" /\ saves'[p].pc # "reading"

\* The bytes of the first k records of a snapshot
RECURSIVE PrefixBytes(_, _)
PrefixBytes(recordings, k) ==
    IF k = 0 THEN 0 ELSE recordings[k].size + PrefixBytes(recordings, k - 1)

\* With the first k records of save p's snapshot gone, the projected total
\* does not exceed 50 MiB
FitsAfter(p, k) ==
    PrefixBytes(saves[p].recordings, Len(saves[p].recordings))
        - PrefixBytes(saves[p].recordings, k) + saves[p].size <= 50 * 1024 * 1024

SnapshotRecord(p, i) ==
    CHOOSE x \in Range(saves[p].recordings) : x.id = i

\* C28: the eviction pass ends after at most one delete per record of the
\* snapshot, issues no delete twice, and deletes in ascending (timestamp, id)
\* order: of two records with equal timestamps the one with the smaller id
\* goes first, and a kept one never has a smaller id than a deleted one.
C28_PassEndsWithoutDoubleDelete ==
    [][\A p \in Saves :
        EvictionPass(p) =>
            LET ids == saves'[p].deleted IN
            /\ saves'[p].pc \in {"deleting", "adding"}
            /\ Len(ids) <= Len(saves[p].recordings)
            /\ Cardinality(Range(ids)) = Len(ids)
            /\ Range(ids) \subseteq {x.id : x \in Range(saves[p].recordings)}
            /\ \A i, j \in 1..Len(ids) :
                  i < j => IndexBefore(SnapshotRecord(p, ids[i]), SnapshotRecord(p, ids[j]))
            /\ \A x \in store \ store', y \in store' :
                  x.timestamp = y.timestamp => x.id < y.id]_vars

\* A pass over a snapshot with an empty record has deleted one of two
\* records with equal timestamps and kept the other
C28_Witness ==
    \E p \in Saves :
        /\ saves[p].deleted # <<>>
        /\ \E i, j \in 1..Len(saves[p].recordings) :
              /\ saves[p].recordings[i].timestamp = saves[p].recordings[j].timestamp
              /\ saves[p].recordings[i].id \in Range(saves[p].deleted)
              /\ saves[p].recordings[j].id \notin Range(saves[p].deleted)
        /\ \E i \in 1..Len(saves[p].recordings) : saves[p].recordings[i].size = 0

-----------------------------------------------------------------------------
(* The payload of a session *)

\* The stop event of recorder r settles the stopRecording call that stopped it
StopSettled(r) ==
    /\ OnStop(r)
    /\ recorders[r].onstop # Null
    /\ calls[recorders[r].onstop].st = "pending"

\* The chunks are chunks of recorder r only, in the order r delivered them,
\* and none is empty
PayloadOf(r, blob) ==
    /\ \A i \in 1..Len(blob) : blob[i].rec = r /\ blob[i].size > 0
    /\ \A i, j \in 1..Len(blob) : i < j => blob[i].n < blob[j].n

\* C29: a non-empty chunk is appended to the payload and an empty one leaves
\* it as it was; the payload stopRecording returns holds chunks of its own
\* session only, in delivery order.
C29_PayloadIsOwnChunksInOrder ==
    [][/\ \A r \in Recorders, size \in ChunkSizes :
            DataAvailable(r, size) =>
                IF size = 0 THEN UNCHANGED recordedChunks
                ELSE /\ Len(recordedChunks') = Len(recordedChunks) + 1
                     /\ SubSeq(recordedChunks', 1, Len(recordedChunks)) = recordedChunks
                     /\ Last(recordedChunks').size = size
       /\ \A r \in Recorders :
            StopSettled(r) =>
                /\ calls'[recorders[r].onstop].blob = recordedChunks
                /\ PayloadOf(r, recordedChunks)]_vars

\* C31: when recorder r reports stop, every promise a stopRecording call
\* returned for r is settled, also when a later call or the deadline timer
\* has stopped r again before the stop event.
C31_StopPromisesSettle ==
    [][\A r \in Recorders :
         OnStop(r) =>
            \A c \in Calls :
                (calls[c].op = "stop" /\ calls[c].rec = r) => calls'[c].st # "pending"]_vars

\* C32: a saveRecording call whose add fails has removed nothing: every
\* record the eviction pass of that call chose is still stored.
C32_FailedSaveRemovesNothing ==
    \A p \in Saves :
        (saves[p].pc \in {"addFailing", "failed"} /\ saves[p].cause = "add")
            => \A i \in Range(saves[p].deleted) : \E x \in store : x.id = i

-----------------------------------------------------------------------------
(* The host timer under the monitor *)

\* The tab is visible, no nudge or idle modal is showing and no resume of a
\* tab return is waiting for its delay
Settled ==
    /\ ~host.hidden
    /\ focusMonitor.idleStage = 0
    /\ focusMonitor.returnTimeouts = <<>>

\* Every timeout the monitor has set fires: the delayed resume of a tab
\* return, the idle timeout and the stage-2 timeout.  Nothing obliges the
\* user to leave the tab, come back or touch the page.
FairFocus ==
    /\ WF_vars(ReturnTimeout)
    /\ WF_vars(IdleTimeout)
    /\ WF_vars(Stage2Timeout)

SpecFocusFair == InitFocus /\ [][NextFocus]_vars /\ FairFocus

\* C33: a host timer that was running when the monitor started, and so when
\* the monitor first paused it, is running whenever the tab is visible, no
\* idle stage is showing and no resume delay is pending.
C33_TimerRunsAgainWhenSettled ==
    host.timerRunning => [](Settled => host.timerRunning)

\* C34: while the tab is hidden or a nudge or idle modal is showing, the host
\* timer is not running.
C34_TimerStoppedWhileAwayOrIdle ==
    (host.hidden \/ focusMonitor.idleStage \in {1, 2}) => ~host.timerRunning

====
